---------------------------- MODULE Spec2Model ----------------------------
(***************************************************************************)
(* Will.IAM: the Google OAuth2 provider (BuildAuthURL, ExchangeCode,       *)
(* Authenticate) over a Token Store.                                       *)
(* Source: src/repositories/roles.go, package oauth2 (lines 57-253).       *)
(***************************************************************************)
EXTENDS Integers, Sequences, FiniteSets, TLC

(***************************************************************************)
(* Bounds of the model.                                                    *)
(***************************************************************************)
\* number of distinct access-token values the token endpoint hands out
MaxTokens == 2
\* longest hosted-domain allow-list a provider is configured with
MaxAllow == 2

(***************************************************************************)
(* 64-bit two's-complement words (Go int64 / time.Duration), kept as eight *)
(* little-endian bytes so that overflow wraps as it does in Go.            *)
(***************************************************************************)
WordBytes == 8
Byte == 256

RECURSIVE WordFromInt(_, _)
\* the low k bytes of the two's-complement form of the integer n
WordFromInt(n, k) ==
  IF k = 0 THEN <<>> ELSE <<n % Byte>> \o WordFromInt(n \div Byte, k - 1)

W(n) == WordFromInt(n, WordBytes)

RECURSIVE MulColumn(_, _, _, _)
\* sum of a[i+1]*b[k-i+1] for i in 0..k  (column k of the schoolbook product)
MulColumn(a, b, k, i) ==
  IF i > k THEN 0 ELSE a[i + 1] * b[k - i + 1] + MulColumn(a, b, k, i + 1)

RECURSIVE MulFrom(_, _, _, _)
MulFrom(a, b, k, carry) ==
  IF k = WordBytes THEN <<>>
  ELSE LET s == MulColumn(a, b, k, 0) + carry
       IN  <<s % Byte>> \o MulFrom(a, b, k + 1, s \div Byte)

\* a * b modulo 2^64
WMul(a, b) == MulFrom(a, b, 0, 0)

RECURSIVE AddFrom(_, _, _, _)
AddFrom(a, b, k, carry) ==
  IF k > WordBytes THEN <<>>
  ELSE LET s == a[k] + b[k] + carry
       IN  <<s % Byte>> \o AddFrom(a, b, k + 1, s \div Byte)

\* a + b modulo 2^64
WAdd(a, b) == AddFrom(a, b, 1, 0)

WNegative(w) == w[WordBytes] >= Byte \div 2
WPositive(w) == ~WNegative(w) /\ w # W(0)
\* a - b modulo 2^64
WSub(a, b) == WAdd(a, WMul(b, W(-1)))

RECURSIVE WPow10(_)
WPow10(e) == IF e = 0 THEN W(1) ELSE WMul(W(10), WPow10(e - 1))

(***************************************************************************)
(* JSON values as encoding/json decodes them into interface{}: a string,   *)
(* a number (float64, written mant * 10^exp10) or nothing (key absent).    *)
(***************************************************************************)
JStr(s) == [t |-> "string", s |-> s, mant |-> 0, exp10 |-> 0]
JNum(m, e) == [t |-> "number", s |-> "", mant |-> m, exp10 |-> e]
JAbsent == [t |-> "absent", s |-> "", mant |-> 0, exp10 |-> 0]


Keys == {"access_token", "refresh_token", "token_type", "expires_in",
         "email", "hd", "error"}

\* a JSON object: the members given in the record pairs, every other key absent
Obj(pairs) == [k \in Keys |-> IF k \in DOMAIN pairs THEN pairs[k] ELSE JAbsent]

\* a response body: a JSON object, or bytes that are no JSON document
JsonBody(pairs) == [json |-> TRUE, obj |-> Obj(pairs)]
NotJSON == [json |-> FALSE, obj |-> Obj([error |-> JAbsent])]

(***************************************************************************)
(* Values the collaborators exchange with the provider.                    *)
(***************************************************************************)
TokenNames == <<"AT1", "AT2", "AT3">>
AccessTokens == {TokenNames[i] : i \in 1..MaxTokens}
\* an access token the provider never issued
UnknownToken == "unknown-token"
Codes == {"code1"}
Emails == {"a@acme.com", "b@other.com"}
DomainTable == <<"acme.com", "corp.org", "third.net">>
HostedDomainValues == {"acme.com", "ACME.COM", "other.com"}

\* a Go []string: nil, or a (possibly empty) list
NilSlice == [isNil |-> TRUE, elems |-> <<>>]
Slice(q) == [isNil |-> FALSE, elems |-> q]
AllowLists == {NilSlice} \cup {Slice(SubSeq(DomainTable, 1, n)) : n \in 0..MaxAllow}

\* expires_in values the token endpoint may answer: 3600, 0, -1, 1e10
ExpiresInAll == {JNum(3600, 0), JNum(0, 0), JNum(-1, 0), JNum(1, 10)}
ExpiresInUsual == {JNum(3600, 0)}

GoodTokenObj(at, ex) ==
  [access_token |-> JStr(at), refresh_token |-> JStr("RT"),
   token_type |-> JStr("Bearer"), expires_in |-> ex]

TokenFields == {"access_token", "refresh_token", "token_type", "expires_in"}

\* the good object with one member missing, or of the wrong JSON type
Without(o, k) == [o EXCEPT ![k] = JAbsent]
WrongType(o, k) ==
  [o EXCEPT ![k] = IF o[k].t = "string" THEN JNum(1, 0) ELSE JStr("3600")]

NetErr == [kind |-> "neterr", status |-> "", body |-> NotJSON]
Http(status, body) == [kind |-> "http", status |-> status, body |-> body]
NoResponse == [kind |-> "none", status |-> "", body |-> NotJSON]

StatusOK == "200"
StatusBadRequest == "400"
StatusUnauthorized == "401"

TokenBodies(expiries) ==
  {JsonBody(GoodTokenObj(at, ex)) : at \in AccessTokens, ex \in expiries}

SchemaViolations ==
  LET good == Obj(GoodTokenObj(TokenNames[1], JNum(3600, 0)))
  IN  {[json |-> TRUE, obj |-> Without(good, k)] : k \in TokenFields}
        \cup {[json |-> TRUE, obj |-> WrongType(good, k)] : k \in TokenFields}

\* what the token endpoint may answer to the POST
TokenResponses(expiries) ==
  {NetErr}
    \cup {Http(StatusOK, b) : b \in TokenBodies(expiries)}
    \cup {Http(StatusOK, b) : b \in SchemaViolations}
    \cup {Http(StatusOK, NotJSON),
          Http(StatusBadRequest, JsonBody([error |-> JStr("invalid_grant")]))}

TokenResponsesUsual == TokenResponses(ExpiresInUsual)

\* what the identity endpoint may answer to the GET
IdentityResponses ==
  {NetErr}
    \cup {Http(StatusOK, JsonBody([email |-> JStr(e), hd |-> JStr(h)])) :
            e \in Emails, h \in HostedDomainValues}
    \cup {Http(StatusOK, JsonBody([email |-> JStr(e)])) : e \in Emails}
    \cup {Http(StatusOK, NotJSON),
          Http(StatusOK, JsonBody([email |-> JNum(1, 0)])),
          Http(StatusUnauthorized, JsonBody([error |-> JStr("invalid_token")])),
          Http(StatusUnauthorized, NotJSON)}

(***************************************************************************)
(* Errors and results.                                                     *)
(***************************************************************************)
Err(type, detail) == [type |-> type, detail |-> detail]
NoErr == Err("nil", "")
NetworkError == Err("NetworkError", "")
ParseError == Err("ParseError", "")
PersistenceError == Err("PersistenceError", "")
NotFound == Err("NotFound", "access token not found")
PolicyViolation(hd) == Err("PolicyViolation", hd)

\* models.Token; NoToken is the nil *models.Token
NoToken ==
  [isNil |-> TRUE, AccessToken |-> "", RefreshToken |-> "", TokenType |-> "",
   Expiry |-> W(0), Email |-> ""]

\* *AuthResult; NoAuth is nil
NoAuth == [isNil |-> TRUE, AccessToken |-> "", Email |-> ""]
AuthResult(at, email) == [isNil |-> FALSE, AccessToken |-> at, Email |-> email]

\* what a call hands back: (value, error), or a panic that unwinds the call
Ret(v, e) == [kind |-> IF e = NoErr THEN "ok" ELSE "err", val |-> v, err |-> e]
Panic(v) == [kind |-> "panic", val |-> v, err |-> NoErr]


\* userInfo; NoUserInfo is the nil *userInfo
NoUserInfo == [isNil |-> TRUE, Email |-> "", HostedDomain |-> ""]
UserInfo(email, hd) == [isNil |-> FALSE, Email |-> email, HostedDomain |-> hd]

\* an external action an invocation performed, in the order performed
Event(a, x) == [a |-> a, x |-> x]

(***************************************************************************)
(* Strings of the URL builder, as sequences of characters.                 *)
(***************************************************************************)
AuthEndpoint ==
  <<"h", "t", "t", "p", "s", ":", "/", "/", "a", "c", "c", "o", "u", "n",
    "t", "s", ".", "g", "o", "o", "g", "l", "e", ".", "c", "o", "m", "/",
    "o", "/", "o", "a", "u", "t", "h", "2", "/", "v", "2", "/", "a", "u",
    "t", "h">>
ScopeProfile ==
  <<"h", "t", "t", "p", "s", ":", "/", "/", "w", "w", "w", ".", "g", "o",
    "o", "g", "l", "e", "a", "p", "i", "s", ".", "c", "o", "m", "/", "a",
    "u", "t", "h", "/", "u", "s", "e", "r", "i", "n", "f", "o", ".", "p",
    "r", "o", "f", "i", "l", "e">>
ScopeEmail ==
  <<"h", "t", "t", "p", "s", ":", "/", "/", "w", "w", "w", ".", "g", "o",
    "o", "g", "l", "e", "a", "p", "i", "s", ".", "c", "o", "m", "/", "a",
    "u", "t", "h", "/", "u", "s", "e", "r", "i", "n", "f", "o", ".", "e",
    "m", "a", "i", "l">>
KeyState ==
  <<"s", "t", "a", "t", "e">>
KeyRedirectURI ==
  <<"r", "e", "d", "i", "r", "e", "c", "t", "_", "u", "r", "i">>
KeyClientID ==
  <<"c", "l", "i", "e", "n", "t", "_", "i", "d">>
KeyScope ==
  <<"s", "c", "o", "p", "e">>
KeyAccessType ==
  <<"a", "c", "c", "e", "s", "s", "_", "t", "y", "p", "e">>
KeyIncludeGrantedScopes ==
  <<"i", "n", "c", "l", "u", "d", "e", "_", "g", "r", "a", "n", "t", "e",
    "d", "_", "s", "c", "o", "p", "e", "s">>
KeyResponseType ==
  <<"r", "e", "s", "p", "o", "n", "s", "e", "_", "t", "y", "p", "e">>
KeyPrompt ==
  <<"p", "r", "o", "m", "p", "t">>
ValOffline ==
  <<"o", "f", "f", "l", "i", "n", "e">>
ValTrue ==
  <<"t", "r", "u", "e">>
ValCode ==
  <<"c", "o", "d", "e">>
ValConsent ==
  <<"c", "o", "n", "s", "e", "n", "t">>
PlainRedirectURL ==
  <<"h", "t", "t", "p", ":", "/", "/", "a", "p", "p", "/", "d", "o", "n",
    "e">>
SomeClientID ==
  <<"c", "i", "d">>

Lower == {"a", "b", "c", "d", "e", "f", "g", "h", "i", "j", "k", "l", "m",
          "n", "o", "p", "q", "r", "s", "t", "u", "v", "w", "x", "y", "z"}
Digits == {"0", "1", "2", "3", "4", "5", "6", "7", "8", "9"}
\* the characters url.QueryEscape leaves as they are (upper case does not
\* occur in the strings of the model)
Unreserved == Lower \cup Digits \cup {"-", "_", ".", "~"}

\* %XX of the other characters that occur in the strings of the model
PercentCode ==
  [c \in {":", "/", "&", "=", "#", "?", "+", "%"} |->
     CASE c = ":" -> <<"3", "A">>
       [] c = "/" -> <<"2", "F">>
       [] c = "&" -> <<"2", "6">>
       [] c = "=" -> <<"3", "D">>
       [] c = "#" -> <<"2", "3">>
       [] c = "?" -> <<"3", "F">>
       [] c = "+" -> <<"2", "B">>
       [] c = "%" -> <<"2", "5">>]

RECURSIVE QueryEscape(_)
\* url.QueryEscape (lines 112-113)
QueryEscape(str) ==
  IF str = <<>> THEN <<>>
  ELSE LET c == Head(str)
       IN  (IF c \in Unreserved THEN <<c>>
            ELSE IF c = " " THEN <<"+">>
            ELSE <<"%">> \o PercentCode[c]) \o QueryEscape(Tail(str))

RECURSIVE Join(_, _)
\* strings.Join
Join(strs, sep) ==
  IF strs = <<>> THEN <<>>
  ELSE IF Len(strs) = 1 THEN strs[1]
  ELSE strs[1] \o sep \o Join(Tail(strs), sep)

(***************************************************************************)
(* mapToQueryStrings (lines 90-96).  m is the map literal's entries in the *)
(* order written.  Go leaves the order of a range over a map unspecified;  *)
(* the runtime walks a map of at most eight entries from a random slot and *)
(* wraps around, so an iteration is a rotation of the entries by offset.   *)
(***************************************************************************)
Rotated(m, offset) == [i \in 1..Len(m) |-> m[((i - 1 + offset) % Len(m)) + 1]]
IterOffsets(m) == 0..(Len(m) - 1)

mapToQueryStrings(m, offset) ==
  LET it == Rotated(m, offset)
      s == [i \in 1..Len(m) |-> it[i][1] \o <<"=">> \o it[i][2]]
  IN  Join(s, <<"&">>)

\* buildURL (lines 86-88)
buildURL(endpoint, queryStrings) == endpoint \o <<"?">> \o queryStrings

\* the map literal of BuildAuthURL (lines 107-119)
AuthParams(cfg, state) ==
  << <<KeyState, state>>,
     <<KeyRedirectURI, cfg.RedirectURL>>,
     <<KeyClientID, cfg.ClientID>>,
     <<KeyScope, Join(<<QueryEscape(ScopeProfile), QueryEscape(ScopeEmail)>>, <<"+">>)>>,
     <<KeyAccessType, ValOffline>>,
     <<KeyIncludeGrantedScopes, ValTrue>>,
     <<KeyResponseType, ValCode>>,
     <<KeyPrompt, ValConsent>> >>

\* BuildAuthURL (lines 106-121), for one iteration order of the map
BuildAuthURLRun(cfg, state, offset) ==
  buildURL(AuthEndpoint, mapToQueryStrings(AuthParams(cfg, state), offset))

(***************************************************************************)
(* State.                                                                  *)
(***************************************************************************)
VARIABLES
  config,   \* Google.config: [HostedDomains, ClientID, RedirectURL]
  tokens,   \* the Token Store: access token -> stored Token (or NoToken)
  op,       \* the last invocation: its operation
  arg,      \*   its argument
  env,      \*   what the collaborators answered to it
  result,   \*   what it returned (or that it panicked)
  trace,    \*   the external actions it performed, in order
  authState,\* the state BuildAuthURL was last given
  url,      \* the URL it returned
  urlPrev,  \* the URL the call before returned for the same state (or <<>>)
  issued,   \* the access tokens the token endpoint has handed out
  rejected, \* the access tokens the identity endpoint has answered 401 for
  admitted, \* the access tokens an ExchangeCode has saved
  invalid,  \* the access tokens an Authenticate has failed for on a 401
  roles,          \* table roles(id, name), rows in insertion order
  roleBindings,   \* table role_bindings(role_id, service_account_id)
  bindingsUnique, \* whether the schema forbids a second row for one pair
  created,        \* the roles a Create has returned without error
  granted,        \* the <<role id, service account id>> a Bind has returned
                  \*   without error for
  call,           \* the last invocation on the Roles repository
  frames          \* the invocations in flight on the provider instance, one
                  \*   per caller: operation, position, local variables

roleVars == <<roles, roleBindings, bindingsUnique, created, granted, call>>

vars == <<config, tokens, op, arg, env, result, trace, authState, url, urlPrev,
          issued, rejected, admitted, invalid, roleVars, frames>>

StoreKeys == AccessTokens \cup {UnknownToken}

(***************************************************************************)
(* The Token Store (repositories.Tokens).                                  *)
(***************************************************************************)
\* Save(t): upsert keyed by the access token; fails with a persistence error
\* leaving the store as it was
SaveOutcomes == {"ok", "fail"}
Save(store, t, outcome) ==
  IF outcome = "ok"
  THEN [store |-> [store EXCEPT ![t.AccessToken] = t], err |-> NoErr]
  ELSE [store |-> store, err |-> PersistenceError]

\* Get(accessToken): (token, nil), (nil, nil) when there is no record, or an
\* error together with no token ("fail") or with the record ("failWithRow")
GetOutcomes == {"ok", "fail", "failWithRow"}
Get(store, accessToken, outcome) ==
  LET row == IF accessToken \in DOMAIN store THEN store[accessToken] ELSE NoToken
  IN  CASE outcome = "ok" -> [t |-> row, err |-> NoErr]
        [] outcome = "fail" -> [t |-> NoToken, err |-> PersistenceError]
        [] outcome = "failWithRow" -> [t |-> row, err |-> PersistenceError]

(***************************************************************************)
(* tokenFromCode (lines 159-185).                                          *)
(***************************************************************************)
\* time.Duration(f) for the float64 f = mant * 10^exp10
DurationOf(j) == WMul(W(j.mant), WPow10(j.exp10))
Second == W(1000000000)
\* time.Now(), the instant of creation, is the origin of the model's clock
Now == W(0)
\* time.Now().Add(time.Second * time.Duration(expires_in))
ExpiryOf(j) == WAdd(Now, WMul(Second, DurationOf(j)))
\* the same, tabulated once over the expires_in values of the model
ExpiryTable == {<<j, ExpiryOf(j)>> : j \in ExpiresInAll}
Expiry(j) == (CHOOSE p \in ExpiryTable : p[1] = j)[2]

\* x.(string) and x.(float64) succeed only on a value of that dynamic type
AssertsString(j) == j.t = "string"
AssertsFloat64(j) == j.t = "number"

TokenAssertionsHold(tmap) ==
  /\ AssertsString(tmap["access_token"])
  /\ AssertsString(tmap["refresh_token"])
  /\ AssertsString(tmap["token_type"])
  /\ AssertsFloat64(tmap["expires_in"])

tokenFromCode(code, res) ==
  IF res.kind = "neterr" THEN Ret(NoToken, NetworkError)
  ELSE IF ~res.body.json THEN Ret(NoToken, ParseError)
  ELSE LET tmap == res.body.obj
       IN  IF ~TokenAssertionsHold(tmap) THEN Panic(NoToken)
           ELSE Ret([isNil |-> FALSE,
                     AccessToken |-> tmap["access_token"].s,
                     RefreshToken |-> tmap["refresh_token"].s,
                     TokenType |-> tmap["token_type"].s,
                     Expiry |-> Expiry(tmap["expires_in"]),
                     Email |-> ""], NoErr)

(***************************************************************************)
(* getUserInfo (lines 192-210): the response's status is never read.       *)
(***************************************************************************)
\* json.Unmarshal into a string field: a number is a type error, an absent
\* member leaves the field ""
FieldDecodes(j) == j.t # "number"
FieldValue(j) == IF j.t = "string" THEN j.s ELSE ""

getUserInfo(accessToken, res) ==
  IF res.kind = "neterr" THEN Ret(NoUserInfo, NetworkError)
  ELSE IF ~res.body.json THEN Ret(NoUserInfo, ParseError)
  ELSE LET o == res.body.obj
       IN  IF ~(FieldDecodes(o["email"]) /\ FieldDecodes(o["hd"]))
           THEN Ret(NoUserInfo, ParseError)
           ELSE Ret(UserInfo(FieldValue(o["email"]), FieldValue(o["hd"])), NoErr)

(***************************************************************************)
(* checkHostedDomain (lines 212-222).                                      *)
(***************************************************************************)
\* a comparison that folds case: "ACME.COM" matches "acme.com"
Fold(d) == IF d = "ACME.COM" THEN "acme.com" ELSE d
checkHostedDomain_FoldsCase(cfg, hd) ==
  IF cfg.HostedDomains.isNil \/ Len(cfg.HostedDomains.elems) = 0 THEN TRUE
  ELSE \E i \in 1..Len(cfg.HostedDomains.elems) :
         Fold(hd) = Fold(cfg.HostedDomains.elems[i])

\* the allow-list is not consulted
checkHostedDomain_AcceptsAll(cfg, hd) == TRUE

checkHostedDomain(cfg, hd) ==
  IF cfg.HostedDomains.isNil \/ Len(cfg.HostedDomains.elems) = 0 THEN TRUE
  ELSE \E i \in 1..Len(cfg.HostedDomains.elems) : hd = cfg.HostedDomains.elems[i]


(***************************************************************************)
(* ExchangeCode (lines 134-157).  tr, ir and sr are what the token         *)
(* endpoint, the identity endpoint and Save answer when they are reached.  *)
(***************************************************************************)
Outcome(res, store, tr, ir, sr, gr, evs) ==
  [result |-> res, tokens |-> store,
   env |-> [tok |-> tr, id |-> ir, save |-> sr, get |-> gr], trace |-> evs]

\* line 149 left out: the token is saved without the identity's email
WithEmail_Dropped(t, ui) == t
\* t.Email = userInfo.Email (line 149)
WithEmail(t, ui) == [t EXCEPT !.Email = ui.Email]

\* the request is sent without the token just obtained
BearerOf_Empty(t) == ""
\* the bearer of the identity request: t.AccessToken (line 139)
BearerOf(t) == t.AccessToken

\* Save's error is not looked at
SaveFailed_Ignored(err) == FALSE
\* err != nil after Save (line 150)
SaveFailed(err) == err # NoErr

ExchangeCodeRun(cfg, store, code, tr, ir, sr) ==
  LET t == tokenFromCode(code, tr)
      ev1 == <<Event("POST token", code)>>
  IN
  IF t.kind = "panic" THEN Outcome(Panic(NoAuth), store, tr, NoResponse, "", "", ev1)
  ELSE IF t.err # NoErr
  THEN Outcome(Ret(NoAuth, t.err), store, tr, NoResponse, "", "", ev1)
  ELSE
  LET userInfo == getUserInfo(BearerOf(t.val), ir)
      ev2 == Append(ev1, Event("GET userinfo", BearerOf(t.val)))
  IN
  IF userInfo.err # NoErr
  THEN Outcome(Ret(NoAuth, userInfo.err), store, tr, ir, "", "", ev2)
  ELSE
  LET allowed == checkHostedDomain(cfg, userInfo.val.HostedDomain)
      ev3 == Append(ev2, Event("checkHostedDomain", userInfo.val.HostedDomain))
  IN
  IF ~allowed
  THEN Outcome(Ret(NoAuth, PolicyViolation(userInfo.val.HostedDomain)),
               store, tr, ir, "", "", ev3)
  ELSE
  LET t2 == WithEmail(t.val, userInfo.val)
      saved == Save(store, t2, sr)
      ev4 == Append(ev3, Event("Save", t2.AccessToken))
  IN
  IF SaveFailed(saved.err)
  THEN Outcome(Ret(NoAuth, saved.err), saved.store, tr, ir, sr, "", ev4)
  ELSE Outcome(Ret(AuthResult(t2.AccessToken, t2.Email), NoErr),
               saved.store, tr, ir, sr, "", ev4)

(***************************************************************************)
(* Authenticate (lines 225-242).                                           *)
(***************************************************************************)
\* the nil check left out
TokenIsNil_Never(t) == FALSE
\* t == nil (line 227)
TokenIsNil(t) == t.isNil

\* the TODO of line 234 carried out: a revalidation that went through writes
\* the record back with the identity just fetched
AuthenticateRun_Refreshing(store, accessToken, gr, ir) ==
  LET got == Get(store, accessToken, gr)
      userInfo == getUserInfo(accessToken, ir)
      evs == <<Event("Get", accessToken), Event("GET userinfo", accessToken)>>
  IN
  IF TokenIsNil(got.t) \/ got.err # NoErr \/ ir = NoResponse
  THEN Outcome(Ret(NoAuth, NotFound), store, NoResponse, ir, "", gr,
               <<Event("Get", accessToken)>>)
  ELSE IF userInfo.err # NoErr
  THEN Outcome(Ret(NoAuth, userInfo.err), store, NoResponse, ir, "", gr, evs)
  ELSE Outcome(Ret(AuthResult(accessToken, userInfo.val.Email), NoErr),
               [store EXCEPT ![accessToken] = WithEmail(got.t, userInfo.val)],
               NoResponse, ir, "", gr, evs)

\* the email is taken from the revalidation probe
ResultEmail_Refetched(t, ui) == ui.Email
\* Email: t.Email (line 240): the stored email, the probe's answer is dropped
ResultEmail(t, ui) == t.Email

AuthenticateRun(store, accessToken, gr, ir) ==
  LET got == Get(store, accessToken, gr)
      ev1 == <<Event("Get", accessToken)>>
  IN
  IF TokenIsNil(got.t)
  THEN Outcome(Ret(NoAuth, NotFound), store, NoResponse, NoResponse, "", gr, ev1)
  ELSE IF got.err # NoErr
  THEN Outcome(Ret(NoAuth, got.err), store, NoResponse, NoResponse, "", gr, ev1)
  ELSE
  LET userInfo == getUserInfo(got.t.AccessToken, ir)
      ev2 == Append(ev1, Event("GET userinfo", got.t.AccessToken))
  IN
  IF userInfo.err # NoErr
  THEN Outcome(Ret(NoAuth, userInfo.err), store, NoResponse, ir, "", gr, ev2)
  ELSE Outcome(Ret(AuthResult(got.t.AccessToken, ResultEmail(got.t, userInfo.val)),
                   NoErr),
               store, NoResponse, ir, "", gr, ev2)

(***************************************************************************)
(* The state machine: one action per exposed operation.                    *)
(***************************************************************************)
NoEnv == [tok |-> NoResponse, id |-> NoResponse, save |-> "", get |-> ""]

\* NewGoogle (lines 245-253) over an empty Token Store, nothing invoked yet
\* models.Role and the value a caller holds before Create has filled its ID
Role(id, name) == [id |-> id, name |-> name]
NoRole == Role("", "")
NoCall == [op |-> "none", role |-> NoRole, sa |-> "", db |-> "",
           roles |-> <<>>, err |-> NoErr]

NewRolesWith(uniques) ==
  /\ roles = <<>>
  /\ roleBindings = <<>>
  /\ bindingsUnique \in uniques
  /\ created = {}
  /\ granted = {}
  /\ call = NoCall

\* the callers of one provider instance
Callers == {"c1", "c2"}
\* a caller with no invocation in flight; ret is what its last one returned
Frame(name, pc, t, ui, ret) ==
  [op |-> name, pc |-> pc, t |-> t, userInfo |-> ui, ret |-> ret]
Idle(name, ret) == Frame(name, "idle", NoToken, NoUserInfo, ret)

NewGoogleWith(configs) ==
  /\ frames = [c \in Callers |-> Idle("none", Ret(NoAuth, NoErr))]
  /\ config \in configs
  /\ tokens = [k \in StoreKeys |-> NoToken]
  /\ op = "none"
  /\ arg = ""
  /\ env = NoEnv
  /\ result = Ret(NoAuth, NoErr)
  /\ trace = <<>>
  /\ authState = <<>>
  /\ url = <<>>
  /\ urlPrev = <<>>
  /\ issued = {}
  /\ rejected = {}
  /\ admitted = {}
  /\ invalid = {}

InitWith(configs) == NewGoogleWith(configs) /\ NewRolesWith({FALSE})

Configs ==
  [HostedDomains : AllowLists, ClientID : {SomeClientID},
   RedirectURL : {PlainRedirectURL}]

Init == InitWith(Configs)

\* the configurations without an allow-list and with the longest one
ConfigsOpenOrFull ==
  {cfg \in Configs : Len(cfg.HostedDomains.elems) \in {0, MaxAllow}}

Elems(q) == {q[i] : i \in 1..Len(q)}

\* the argument of the events named a among evs
Subjects(evs, a) == {evs[i].x : i \in {j \in 1..Len(evs) : evs[j].a = a}}

Returns(name, a, out) ==
  /\ op' = name
  /\ arg' = a
  /\ result' = out.result
  /\ tokens' = out.tokens
  /\ env' = out.env
  /\ trace' = out.trace
  /\ authState' = <<>>
  /\ url' = <<>>
  /\ urlPrev' = <<>>
  /\ UNCHANGED <<config, roleVars, frames>>

Apply(name, a, out) ==
  /\ Returns(name, a, out)
  /\ UNCHANGED <<issued, rejected, admitted, invalid>>

\* a collaborator answers only when the invocation reaches it
IdentityAnswers(reached) == IF reached THEN IdentityResponses ELSE {NoResponse}
SaveAnswers(reached) == IF reached THEN SaveOutcomes ELSE {""}

ExchangeCodeWith(tokenResponses, identityResponses) ==
  \E code \in Codes, tr \in tokenResponses :
    \E ir \in IF tokenFromCode(code, tr).kind = "ok"
              THEN identityResponses ELSE {NoResponse} :
      \E sr \in SaveAnswers(
                 /\ ir # NoResponse
                 /\ getUserInfo("", ir).kind = "ok"
                 /\ checkHostedDomain(config, getUserInfo("", ir).val.HostedDomain)) :
        Apply("ExchangeCode", code,
              ExchangeCodeRun(config, tokens, code, tr, ir, sr))

ExchangeCode == ExchangeCodeWith(TokenResponsesUsual, IdentityResponses)

Authenticate ==
  \E accessToken \in StoreKeys, gr \in GetOutcomes :
    \E ir \in IdentityAnswers(
               /\ ~TokenIsNil(Get(tokens, accessToken, gr).t)
               /\ Get(tokens, accessToken, gr).err = NoErr) :
      Apply("Authenticate", accessToken,
            AuthenticateRun(tokens, accessToken, gr, ir))

Next == ExchangeCode \/ Authenticate

Spec == Init /\ [][Next]_vars


(***************************************************************************)
(* BuildAuthURL over the state values of the model, under every iteration  *)
(* order of its map.                                                       *)
(***************************************************************************)
\* longest state value given to BuildAuthURL
MaxStateLen == 1
StateAlphabet == {"a", "&", "=", "#"}
RECURSIVE StringsUpTo(_)
StringsUpTo(n) ==
  IF n = 0 THEN {<<>>}
  ELSE LET shorter == StringsUpTo(n - 1)
       IN  shorter \cup {Append(str, c) : str \in shorter, c \in StateAlphabet}
StateInputs == StringsUpTo(MaxStateLen)

\* the URLs BuildAuthURL returns, tabulated once
RECURSIVE AuthURLs(_, _, _)
\* the URLs of the first n iteration orders, in a list
AuthURLs(cfg, state, n) ==
  IF n = 0 THEN <<>>
  ELSE Append(AuthURLs(cfg, state, n - 1), BuildAuthURLRun(cfg, state, n - 1))
AuthURLTable ==
  {<<cfg, state, AuthURLs(cfg, state, Len(AuthParams(cfg, state)))>> :
     cfg \in Configs, state \in StateInputs}

BuildAuthURLWith(states) ==
  \E state \in states :
    LET urls == (CHOOSE e \in AuthURLTable : e[1] = config /\ e[2] = state)[3]
    IN  \E offset \in IterOffsets(urls) :
          /\ op' = "BuildAuthURL"
          /\ arg' = ""
          /\ authState' = state
          /\ url' = urls[offset + 1]
          /\ urlPrev' = IF op = "BuildAuthURL" /\ authState = state THEN url ELSE <<>>
          /\ result' = Ret(NoAuth, NoErr)
          /\ env' = NoEnv
          /\ trace' = <<>>
          /\ UNCHANGED <<config, tokens, issued, rejected, admitted, invalid,
                         roleVars, frames>>

BuildAuthURL == BuildAuthURLWith(StateInputs)

InitURL ==
  InitWith([HostedDomains : {NilSlice}, ClientID : {SomeClientID},
            RedirectURL : {PlainRedirectURL}])

NextURL == BuildAuthURL

SpecURL == InitURL /\ [][NextURL]_vars

(***************************************************************************)
(* The expiry computation over every expires_in of the model: the code     *)
(* exchanges of a provider whose token endpoint answers well-formed        *)
(* objects with any expires_in.                                            *)
(***************************************************************************)
TokenResponsesAnyExpiry == {Http(StatusOK, b) : b \in TokenBodies(ExpiresInAll)}
IdentityResponsesPlain ==
  {NetErr} \cup {Http(StatusOK, JsonBody([email |-> JStr(e)])) : e \in Emails}

ExchangeCodeAnyExpiry ==
  ExchangeCodeWith(TokenResponsesAnyExpiry, IdentityResponsesPlain)

NextExpiry == ExchangeCodeAnyExpiry

SpecExpiry == Init /\ [][NextExpiry]_vars

(***************************************************************************)
(* The three operations against a provider that keeps the OAuth2 contract: *)
(* the token endpoint hands out every access token once, and an access     *)
(* token the identity endpoint has answered 401 for is answered 401 (or    *)
(* not at all) ever after.  issued, rejected and admitted record what the  *)
(* provider and the exchanges have done so far.                            *)
(***************************************************************************)
\* the access token in a token endpoint's answer, if it carries one
IssuedBy(tr) ==
  IF tr.kind = "http" /\ tr.body.json /\ tr.body.obj["access_token"].t = "string"
  THEN {tr.body.obj["access_token"].s} ELSE {}

FreshTokenResponses == {tr \in TokenResponsesUsual : IssuedBy(tr) \cap issued = {}}

Rejections == {ir \in IdentityResponses : ir.status = StatusUnauthorized}
IdentityResponsesFor(bearer) ==
  IF bearer \in rejected THEN Rejections \cup {NetErr} ELSE IdentityResponses

ApplyAtProvider(name, a, out) ==
  /\ Returns(name, a, out)
  /\ issued' = issued \cup IssuedBy(out.env.tok)
  /\ rejected' = rejected \cup (IF out.env.id.status = StatusUnauthorized
                                 THEN Subjects(out.trace, "GET userinfo") ELSE {})
  /\ admitted' = admitted \cup (IF out.env.save = "ok"
                                 THEN Subjects(out.trace, "Save") ELSE {})
  /\ invalid' = invalid \cup (IF /\ name = "Authenticate"
                                  /\ out.env.id.status = StatusUnauthorized
                                  /\ out.result.kind = "err"
                               THEN {a} ELSE {})

ExchangeCodeAtProvider ==
  \E code \in Codes, tr \in FreshTokenResponses :
    \E ir \in IF tokenFromCode(code, tr).kind = "ok"
              THEN IdentityResponses ELSE {NoResponse} :
      \E sr \in SaveAnswers(
                 /\ ir # NoResponse
                 /\ getUserInfo("", ir).kind = "ok"
                 /\ checkHostedDomain(config, getUserInfo("", ir).val.HostedDomain)) :
        ApplyAtProvider("ExchangeCode", code,
                        ExchangeCodeRun(config, tokens, code, tr, ir, sr))

AuthenticateAtProvider ==
  \E accessToken \in StoreKeys, gr \in GetOutcomes :
    \E ir \in IF /\ ~TokenIsNil(Get(tokens, accessToken, gr).t)
                 /\ Get(tokens, accessToken, gr).err = NoErr
              THEN IdentityResponsesFor(accessToken) ELSE {NoResponse} :
      ApplyAtProvider("Authenticate", accessToken,
                      AuthenticateRun(tokens, accessToken, gr, ir))

NextProvider == ExchangeCodeAtProvider \/ AuthenticateAtProvider

InitProvider == InitWith(ConfigsOpenOrFull)

SpecProvider == InitProvider /\ [][NextProvider]_vars

(***************************************************************************)
(* The three operations of one provider instance that admits every hosted  *)
(* domain, on a store that fills up: the code exchanges of the contract    *)
(* above whose token endpoint answers well-formed objects, any             *)
(* Authenticate, and BuildAuthURL without a state value.                   *)
(***************************************************************************)
ExchangeCodeFresh ==
  \E code \in Codes,
     tr \in {r \in TokenResponsesUsual : IssuedBy(r) # {} /\ IssuedBy(r) \cap issued = {}} :
    \E ir \in IF tokenFromCode(code, tr).kind = "ok"
              THEN IdentityResponsesPlain ELSE {NoResponse} :
      \E sr \in SaveAnswers(
                 /\ ir # NoResponse
                 /\ getUserInfo("", ir).kind = "ok"
                 /\ checkHostedDomain(config, getUserInfo("", ir).val.HostedDomain)) :
        ApplyAtProvider("ExchangeCode", code,
                        ExchangeCodeRun(config, tokens, code, tr, ir, sr))

BuildAuthURLStateless == BuildAuthURLWith({<<>>})

NextStore == ExchangeCodeFresh \/ AuthenticateAtProvider \/ BuildAuthURLStateless

SpecStore == InitURL /\ [][NextStore]_vars

(***************************************************************************)
(* The Roles repository (package repositories) on its two tables.  The     *)
(* statements are those of the source; the constraints of the schema are   *)
(* not in the source and follow the data model of the specification: role  *)
(* names are unique, both columns of a binding reference existing rows,    *)
(* and whether one pair may be bound twice is left open.                   *)
(***************************************************************************)
\* most rows of role_bindings
MaxBindings == 2

RoleNames == {"admin", "viewer"}
\* the identifiers the database generates, in the order it hands them out
RoleIDs == <<"r1", "r2">>
\* the rows of the service-accounts table, and an id that is not among them
ServiceAccounts == {"sa1", "sa2"}
UnknownServiceAccount == "sa-unknown"
ConflictError == Err("ConflictError", "")
\* a statement reaches the database and is executed, or does not
StatementOutcomes == {"ok", "fail"}

RoleBinding(roleID, serviceAccountID) ==
  [role_id |-> roleID, service_account_id |-> serviceAccountID]

\* the schema's constraints on a new row
NameIsFree(rolesTable, name) ==
  \A i \in 1..Len(rolesTable) : rolesTable[i].name # name
ReferencesHold_Unchecked(rolesTable, rb) == TRUE
ReferencesHold(rolesTable, rb) ==
  /\ \E i \in 1..Len(rolesTable) : rolesTable[i].id = rb.role_id
  /\ rb.service_account_id \in ServiceAccounts
PairIsFree(bindingsTable, unique, rb) ==
  unique => \A i \in 1..Len(bindingsTable) : bindingsTable[i] # rb

\* the rows of SELECT r.id, r.name FROM roles r JOIN role_bindings rb
\* ON rb.role_id = r.id, without the WHERE clause
RECURSIVE RolesOf_AnyAccount(_, _, _)
RolesOf_AnyAccount(rolesTable, bindingsTable, serviceAccountID) ==
  IF bindingsTable = <<>> THEN <<>>
  ELSE SelectSeq(rolesTable, LAMBDA r : r.id = Head(bindingsTable).role_id)
         \o RolesOf_AnyAccount(rolesTable, Tail(bindingsTable), serviceAccountID)

\* the query of ForServiceAccountID (lines 21-25)
RECURSIVE RolesOf(_, _, _)
RolesOf(rolesTable, bindingsTable, serviceAccountID) ==
  IF bindingsTable = <<>> THEN <<>>
  ELSE LET rb == Head(bindingsTable)
           joined == IF rb.service_account_id = serviceAccountID
                     THEN SelectSeq(rolesTable, LAMBDA r : r.id = rb.role_id)
                     ELSE <<>>
       IN  joined \o RolesOf(rolesTable, Tail(bindingsTable), serviceAccountID)

Reverse(q) == [i \in 1..Len(q) |-> q[Len(q) + 1 - i]]

RoleCall(name, r, sa, db, rows, err) ==
  [op |-> name, role |-> r, sa |-> sa, db |-> db, roles |-> rows, err |-> err]

\* ForServiceAccountID (lines 18-31); the rows come in no promised order
ForServiceAccountID ==
  \E serviceAccountID \in ServiceAccounts \cup {UnknownServiceAccount},
     db \in StatementOutcomes :
    LET rows == RolesOf(roles, roleBindings, serviceAccountID)
    IN  /\ \E answer \in {rows, Reverse(rows)} :
             call' = IF db = "fail"
                     THEN RoleCall("ForServiceAccountID", NoRole, serviceAccountID,
                                   db, <<>>, PersistenceError)
                     ELSE RoleCall("ForServiceAccountID", NoRole, serviceAccountID,
                                   db, answer, NoErr)
        /\ UNCHANGED <<roles, roleBindings, bindingsUnique, created, granted>>
        /\ UNCHANGED <<config, tokens, op, arg, env, result, trace, authState,
                       url, urlPrev, issued, rejected, admitted, invalid, frames>>

\* Create (lines 33-38): INSERT ... RETURNING id fills r.ID
Create ==
  \E name \in RoleNames, db \in StatementOutcomes :
    LET r == Role(RoleIDs[Len(roles) + 1], name)
    IN  /\ IF db = "fail"
           THEN /\ call' = RoleCall("Create", Role("", name), "", db, <<>>,
                                    PersistenceError)
                /\ UNCHANGED <<roles, created>>
           ELSE IF ~NameIsFree(roles, name)
           THEN /\ call' = RoleCall("Create", Role("", name), "", db, <<>>,
                                    ConflictError)
                /\ UNCHANGED <<roles, created>>
           ELSE /\ call' = RoleCall("Create", r, "", db, <<>>, NoErr)
                /\ roles' = Append(roles, r)
                /\ created' = created \cup {r}
        /\ UNCHANGED <<roleBindings, bindingsUnique, granted>>
        /\ UNCHANGED <<config, tokens, op, arg, env, result, trace, authState,
                       url, urlPrev, issued, rejected, admitted, invalid, frames>>

\* Bind (lines 40-50): the row is built from r.ID and sa.ID as they are
Bind ==
  \E roleID \in {""} \cup Elems(RoleIDs),
     serviceAccountID \in ServiceAccounts \cup {UnknownServiceAccount},
     db \in StatementOutcomes :
    LET rb == RoleBinding(roleID, serviceAccountID)
        r == Role(roleID, "")
    IN  /\ Len(roleBindings) < MaxBindings
        /\ IF db = "fail" \/ ~ReferencesHold(roles, rb)
           THEN /\ call' = RoleCall("Bind", r, serviceAccountID, db, <<>>,
                                    PersistenceError)
                /\ UNCHANGED <<roleBindings, granted>>
           ELSE IF ~PairIsFree(roleBindings, bindingsUnique, rb)
           THEN /\ call' = RoleCall("Bind", r, serviceAccountID, db, <<>>,
                                    ConflictError)
                /\ UNCHANGED <<roleBindings, granted>>
           ELSE /\ call' = RoleCall("Bind", r, serviceAccountID, db, <<>>, NoErr)
                /\ roleBindings' = Append(roleBindings, rb)
                /\ granted' = granted \cup {<<roleID, serviceAccountID>>}
        /\ UNCHANGED <<roles, bindingsUnique, created>>
        /\ UNCHANGED <<config, tokens, op, arg, env, result, trace, authState,
                       url, urlPrev, issued, rejected, admitted, invalid, frames>>

InitRoles ==
  /\ NewGoogleWith([HostedDomains : {NilSlice}, ClientID : {SomeClientID},
                    RedirectURL : {PlainRedirectURL}])
  /\ NewRolesWith(BOOLEAN)

NextRoles == Create \/ Bind \/ ForServiceAccountID

SpecRoles == InitRoles /\ [][NextRoles]_vars

(***************************************************************************)
(* Concurrent invocations on one provider instance: every caller runs      *)
(* ExchangeCode or Authenticate one collaborator call at a time, and the   *)
(* calls of different callers interleave; a store operation is one step.   *)
(* The provider hands out each access token once and its identity endpoint *)
(* answers, for a bearer, the identity that token was issued to.           *)
(***************************************************************************)
IdentityOf ==
  [at \in AccessTokens |->
     IF at = TokenNames[1] THEN UserInfo("a@acme.com", "acme.com")
     ELSE UserInfo("b@other.com", "other.com")]

IdentityResponsesOf(bearer) ==
  {NetErr}
    \cup {Http(StatusOK, JsonBody([email |-> JStr(IdentityOf[at].Email),
                                   hd |-> JStr(IdentityOf[at].HostedDomain)])) :
            at \in {bearer} \cap AccessTokens}

TokenResponsesWellFormed ==
  {NetErr} \cup {Http(StatusOK, b) : b \in TokenBodies(ExpiresInUsual)}

\* the identity is read from whichever invocation fetched one
UserInfoOf_Shared(fs, c) ==
  fs[CHOOSE d \in Callers : ~fs[d].userInfo.isNil].userInfo
\* userInfo, a local variable of the invocation (lines 139, 225)
UserInfoOf(fs, c) == fs[c].userInfo

Continue(c, frame) ==
  /\ frames' = [frames EXCEPT ![c] = frame]
  /\ UNCHANGED <<config, op, arg, env, result, trace, authState, url, urlPrev,
                 rejected, admitted, invalid, roleVars>>

\* ExchangeCode, line 135: t, err := g.tokenFromCode(code)
CallTokenFromCode(c) ==
  /\ frames[c].pc = "idle"
  /\ \E code \in Codes,
        tr \in {r \in TokenResponsesWellFormed : IssuedBy(r) \cap issued = {}} :
       LET t == tokenFromCode(code, tr)
       IN  /\ Continue(c, IF t.err # NoErr
                          THEN Idle("ExchangeCode", Ret(NoAuth, t.err))
                          ELSE Frame("ExchangeCode", "getUserInfo", t.val,
                                     NoUserInfo, Ret(NoAuth, NoErr)))
           /\ issued' = issued \cup IssuedBy(tr)
           /\ UNCHANGED tokens

\* Authenticate, lines 226-232: t, err := g.tokensRepository.Get(accessToken)
CallGet(c) ==
  /\ frames[c].pc = "idle"
  /\ \E accessToken \in StoreKeys, gr \in GetOutcomes :
       LET got == Get(tokens, accessToken, gr)
       IN  Continue(c, IF TokenIsNil(got.t)
                       THEN Idle("Authenticate", Ret(NoAuth, NotFound))
                       ELSE IF got.err # NoErr
                       THEN Idle("Authenticate", Ret(NoAuth, got.err))
                       ELSE Frame("Authenticate", "getUserInfo", got.t,
                                  NoUserInfo, Ret(NoAuth, NoErr)))
  /\ UNCHANGED <<tokens, issued>>

\* lines 139-142 and 236-241: g.getUserInfo(t.AccessToken)
CallGetUserInfo(c) ==
  /\ frames[c].pc = "getUserInfo"
  /\ \E ir \in IdentityResponsesOf(BearerOf(frames[c].t)) :
       LET f == frames[c]
           userInfo == getUserInfo(BearerOf(f.t), ir)
       IN  Continue(c, IF userInfo.err # NoErr
                       THEN Idle(f.op, Ret(NoAuth, userInfo.err))
                       ELSE IF f.op = "Authenticate"
                       THEN Idle(f.op, Ret(AuthResult(f.t.AccessToken,
                                                      ResultEmail(f.t, userInfo.val)),
                                           NoErr))
                       ELSE Frame(f.op, "checkHostedDomain", f.t, userInfo.val,
                                  f.ret))
  /\ UNCHANGED <<tokens, issued>>

\* lines 143-148: g.checkHostedDomain(userInfo.HostedDomain)
CallCheckHostedDomain(c) ==
  /\ frames[c].pc = "checkHostedDomain"
  /\ LET f == frames[c]
         hd == UserInfoOf(frames, c).HostedDomain
     IN  Continue(c, IF ~checkHostedDomain(config, hd)
                     THEN Idle(f.op, Ret(NoAuth, PolicyViolation(hd)))
                     ELSE Frame(f.op, "Save", f.t, f.userInfo, f.ret))
  /\ UNCHANGED <<tokens, issued>>

\* lines 149-156: t.Email = userInfo.Email; g.tokensRepository.Save(t)
CallSave(c) ==
  /\ frames[c].pc = "Save"
  /\ \E sr \in SaveOutcomes :
       LET t == WithEmail(frames[c].t, UserInfoOf(frames, c))
           saved == Save(tokens, t, sr)
       IN  /\ tokens' = saved.store
           /\ Continue(c, IF SaveFailed(saved.err)
                          THEN Idle("ExchangeCode", Ret(NoAuth, saved.err))
                          ELSE Idle("ExchangeCode",
                                    Ret(AuthResult(t.AccessToken, t.Email), NoErr)))
  /\ UNCHANGED issued

InitConcurrent ==
  /\ NewGoogleWith(ConfigsOpenOrFull)
  /\ NewRolesWith({FALSE})

NextConcurrent ==
  \E c \in Callers :
    \/ CallTokenFromCode(c)
    \/ CallGet(c)
    \/ CallGetUserInfo(c)
    \/ CallCheckHostedDomain(c)
    \/ CallSave(c)

SpecConcurrent == InitConcurrent /\ [][NextConcurrent]_vars

(***************************************************************************)
(* Properties.                                                             *)
(***************************************************************************)
\* the instant t is strictly later than the instant u
After(t, u) == WPositive(WSub(t, u))
Performed(a) == {i \in 1..Len(trace) : trace[i].a = a}

\* the token endpoint's answer is a JSON object with the four members, each
\* of its schema's type
SchemaValid(o) ==
  /\ o["access_token"].t = "string"
  /\ o["refresh_token"].t = "string"
  /\ o["token_type"].t = "string"
  /\ o["expires_in"].t = "number"

\* the three steps of ExchangeCode, as the collaborators saw them fail
TokenExchangeFailed ==
  \/ env.tok.kind = "neterr"
  \/ env.tok.kind = "http"
       /\ (env.tok.status # StatusOK \/ ~env.tok.body.json
             \/ ~SchemaValid(env.tok.body.obj))
IdentityRejected == env.id.kind = "http" /\ env.id.status = StatusUnauthorized
IdentityFetchFailed ==
  \/ env.id.kind = "neterr"
  \/ IdentityRejected
  \/ env.id.kind = "http"
       /\ (~env.id.body.json \/ env.id.body.obj["email"].t = "number"
             \/ env.id.body.obj["hd"].t = "number")
\* the identity the endpoint reported, once its answer decoded
ReportedEmail == FieldValue(env.id.body.obj["email"])
ReportedDomain == FieldValue(env.id.body.obj["hd"])
IdentityDecoded ==
  /\ env.id.kind = "http"
  /\ env.id.body.json
  /\ env.id.body.obj["email"].t # "number"
  /\ env.id.body.obj["hd"].t # "number"
OnAllowList(hd) ==
  \/ config.HostedDomains.isNil
  \/ config.HostedDomains.elems = <<>>
  \/ hd \in Elems(config.HostedDomains.elems)

\* C1: every ExchangeCode that returns success performed exactly one Save,
\* the saved record carries the access token the token endpoint returned and
\* the email the identity endpoint returned in that invocation, and the
\* AuthResult carries the same two values.
C1_SuccessfulExchangeSavesWhatTheProviderReturned ==
  (op = "ExchangeCode" /\ result.kind = "ok") =>
    LET at == env.tok.body.obj["access_token"].s
    IN  /\ Cardinality(Performed("Save")) = 1
        /\ ~tokens[at].isNil
        /\ tokens[at].AccessToken = at
        /\ tokens[at].Email = ReportedEmail
        /\ result.val = AuthResult(at, ReportedEmail)

C1_Witness ==
  /\ op = "ExchangeCode"
  /\ result.kind = "ok"
  /\ result.val.Email = "b@other.com"
  /\ tokens[result.val.AccessToken].Email = "b@other.com"

\* C2: if the token-endpoint exchange, the identity fetch or the
\* hosted-domain check of an ExchangeCode fails, ExchangeCode returns an error
\* and no AuthResult, and performs no Save.
C2_FailedStepReturnsErrorAndSavesNothing ==
  (/\ op = "ExchangeCode"
   /\ \/ TokenExchangeFailed
      \/ IdentityFetchFailed
      \/ (IdentityDecoded /\ ~OnAllowList(ReportedDomain))) =>
    /\ result.kind = "err"
    /\ result.val = NoAuth
    /\ Performed("Save") = {}

\* C3: the hosted-domain check accepts every hd when the allow-list is nil or
\* empty, and otherwise exactly the hd equal to one of its entries; a rejected
\* ExchangeCode fails with an error naming the rejected domain.
C3_HostedDomainPolicy ==
  (op = "ExchangeCode" /\ Performed("checkHostedDomain") # {}) =>
    /\ OnAllowList(ReportedDomain) => result.err.type # "PolicyViolation"
    /\ ~OnAllowList(ReportedDomain) =>
         result = Ret(NoAuth, PolicyViolation(ReportedDomain))

C3_Witness ==
  /\ op = "ExchangeCode"
  /\ "acme.com" \in Elems(config.HostedDomains.elems)
  /\ ReportedDomain = "ACME.COM"
  /\ result = Ret(NoAuth, PolicyViolation("ACME.COM"))

\* C4: Authenticate with an access token that has no record in the Token
\* Store returns NotFound and makes no call to the identity endpoint.
C4_AbsentTokenIsNotFoundWithoutCall ==
  (op = "Authenticate" /\ tokens[arg].isNil) =>
    /\ result = Ret(NoAuth, NotFound)
    /\ Performed("GET userinfo") = {}
    /\ Performed("POST token") = {}

C4_Witness ==
  /\ op = "Authenticate"
  /\ arg = UnknownToken
  /\ \E k \in AccessTokens : ~tokens[k].isNil
  /\ result.err = NotFound

\* C5: when Authenticate is called for a stored token and the identity
\* endpoint rejects the bearer token (HTTP 401), Authenticate returns an error
\* and no AuthResult, and makes no token-endpoint call.
C5_RejectedBearerIsAnError ==
  (op = "Authenticate" /\ IdentityRejected) =>
    /\ result.kind = "err"
    /\ result.val = NoAuth
    /\ Performed("POST token") = {}

\* C8: when the token endpoint's response is not JSON or violates the schema,
\* ExchangeCode returns a ParseError (it does not panic) and saves nothing.
C8_MalformedTokenResponseIsParseError ==
  (/\ op = "ExchangeCode"
   /\ env.tok.kind = "http"
   /\ (~env.tok.body.json \/ ~SchemaValid(env.tok.body.obj))) =>
    /\ result = Ret(NoAuth, ParseError)
    /\ Performed("Save") = {}

\* C9: when Get fails with a persistence error during Authenticate, also when
\* it returns no token with the error, Authenticate returns that persistence
\* error, not NotFound, and makes no identity-endpoint call.
C9_GetFailureIsPropagated ==
  (op = "Authenticate" /\ env.get \in {"fail", "failWithRow"}) =>
    /\ result = Ret(NoAuth, PersistenceError)
    /\ Performed("GET userinfo") = {}

\* C10: every Token a code exchange produced has its expiry strictly later
\* than the time of its creation, whatever expires_in the endpoint returned.
C10_ExpiryStrictlyAfterCreation ==
  \A k \in StoreKeys : ~tokens[k].isNil => After(tokens[k].Expiry, Now)

(***************************************************************************)
(* Reading a URL back, as net/url does (url.Parse, then URL.Query().Get):  *)
(* the fragment starts at the first '#', the query at the first '?', the   *)
(* pairs are cut at '&', each at its first '=', and key and value are      *)
(* unescaped ('+' is a space, %XX a character).                            *)
(***************************************************************************)
\* the first index of the character c in str, or 0
IndexOf(str, c) ==
  LET at == {i \in 1..Len(str) : str[i] = c}
  IN  IF at = {} THEN 0 ELSE CHOOSE i \in at : \A j \in at : i <= j

Before(str, c) ==
  LET i == IndexOf(str, c)
  IN  IF i = 0 THEN str ELSE SubSeq(str, 1, i - 1)
After1(str, c) ==
  LET i == IndexOf(str, c)
  IN  IF i = 0 THEN <<>> ELSE SubSeq(str, i + 1, Len(str))

RawQuery(u) == After1(Before(u, "#"), "?")

RECURSIVE SplitOn(_, _)
SplitOn(str, c) ==
  IF IndexOf(str, c) = 0 THEN <<str>>
  ELSE <<Before(str, c)>> \o SplitOn(After1(str, c), c)

Decodes(pair) == {c \in DOMAIN PercentCode : PercentCode[c] = pair}

\* the unescaped string in a one-element sequence, or <<>> on a bad escape
\* (a '%' not followed by the two hex digits of a character of the model)
QueryUnescape(str) ==
  LET marks == {i \in 1..Len(str) : str[i] = "%"}
      bad == {i \in marks :
                i + 2 > Len(str) \/ Decodes(SubSeq(str, i + 1, i + 2)) = {}}
      digits == {i + 1 : i \in marks} \cup {i + 2 : i \in marks}
      kept == (1..Len(str)) \ digits
      nth(j) == CHOOSE i \in kept : Cardinality({k \in kept : k <= i}) = j
      char(i) == IF str[i] = "%"
                 THEN CHOOSE c \in Decodes(SubSeq(str, i + 1, i + 2)) : TRUE
                 ELSE IF str[i] = "+" THEN " " ELSE str[i]
  IN  IF bad # {} THEN <<>>
      ELSE << [j \in 1..Cardinality(kept) |-> char(nth(j))] >>

RECURSIVE FirstValue(_, _)
\* the value of the first pair named key, "" when there is none
FirstValue(pairs, key) ==
  IF pairs = <<>> THEN <<>>
  ELSE LET k == QueryUnescape(Before(Head(pairs), "="))
           v == QueryUnescape(After1(Head(pairs), "="))
       IN  IF k # <<>> /\ v # <<>> /\ k[1] = key THEN v[1]
           ELSE FirstValue(Tail(pairs), key)

QueryGet(u, key) == FirstValue(SplitOn(RawQuery(u), "&"), key)

\* C6: for a fixed configuration and a fixed state, any two BuildAuthURL
\* calls return the identical URL string; the call makes no network request
\* and changes no store.
C6_BuildAuthURLIsDeterministicAndPure ==
  [][op' = "BuildAuthURL" =>
       /\ tokens' = tokens
       /\ trace' = <<>>
       /\ urlPrev' # <<>> => url' = urlPrev']_vars

\* C7: for every state, also one with '&', '=' or '#', the query of the URL
\* BuildAuthURL returns parses to a state equal to the input, and the other
\* seven parameters parse to their configured or fixed values.
C7_StateAndParametersRoundTrip ==
  op = "BuildAuthURL" =>
    /\ QueryGet(url, KeyState) = authState
    /\ QueryGet(url, KeyRedirectURI) = config.RedirectURL
    /\ QueryGet(url, KeyClientID) = config.ClientID
    /\ QueryGet(url, KeyScope) = ScopeProfile \o <<" ">> \o ScopeEmail
    /\ QueryGet(url, KeyAccessType) = ValOffline
    /\ QueryGet(url, KeyIncludeGrantedScopes) = ValTrue
    /\ QueryGet(url, KeyResponseType) = ValCode
    /\ QueryGet(url, KeyPrompt) = ValConsent


\* C11: every Authenticate that returns success returns the stored record's
\* access token and the email the store holds for it, whatever email the
\* identity endpoint reports in the revalidation request.
C11_AuthenticateReturnsTheStoredIdentity ==
  (op = "Authenticate" /\ result.kind = "ok") =>
    /\ ~tokens[arg].isNil
    /\ tokens[arg].AccessToken = arg
    /\ result.val = AuthResult(arg, tokens[arg].Email)

C11_Witness ==
  /\ op = "Authenticate"
  /\ result.kind = "ok"
  /\ IdentityDecoded
  /\ env.id.status = StatusOK
  /\ ReportedEmail = "b@other.com"
  /\ result.val.Email = "a@acme.com"

\* C12: when Save fails in an ExchangeCode, ExchangeCode returns Save's error
\* and no AuthResult, and Save is the last thing it did: one token POST and
\* one identity GET before it, no call after it.
C12_SaveFailureIsReturnedWithoutCompensation ==
  (op = "ExchangeCode" /\ env.save = "fail") =>
    /\ result = Ret(NoAuth, PersistenceError)
    /\ trace[Len(trace)].a = "Save"
    /\ Cardinality(Performed("Save")) = 1
    /\ Cardinality(Performed("POST token")) = 1
    /\ Cardinality(Performed("GET userinfo")) = 1

C12_Witness ==
  /\ op = "ExchangeCode"
  /\ env.save = "fail"
  /\ IdentityDecoded
  /\ result.err = PersistenceError

\* C16: the external actions of one ExchangeCode are an initial part of
\* token POST, identity GET, hosted-domain check, Save, in that order and each
\* at most once, and the identity GET carries the access token the token
\* POST of that invocation returned.
StepOrder == <<"POST token", "GET userinfo", "checkHostedDomain", "Save">>
C16_ExchangeStepsInOrderAtMostOnce ==
  op = "ExchangeCode" =>
    /\ Len(trace) \in 1..Len(StepOrder)
    /\ \A i \in 1..Len(trace) : trace[i].a = StepOrder[i]
    /\ trace[1].x = arg
    /\ Len(trace) >= 2 => trace[2].x = env.tok.body.obj["access_token"].s

C16_Witness ==
  /\ op = "ExchangeCode"
  /\ Len(trace) = 4
  /\ trace[2].x = TokenNames[2]
  /\ result.kind = "ok"

C17_InvalidIsTerminal ==
  (op = "Authenticate" /\ arg \in invalid) => result.kind = "err"

\* C19: an ExchangeCode saves only after the identity it fetched passed the
\* hosted-domain policy; Authenticate returns success only for an access
\* token an ExchangeCode has saved; and for every other access token, also
\* one the provider issued and never rejected, it returns NotFound.
C19_OnlySavedTokensAuthenticate ==
  /\ (op = "ExchangeCode" /\ Performed("Save") # {}) =>
       IdentityDecoded /\ OnAllowList(ReportedDomain)
  /\ (op = "Authenticate" /\ result.kind = "ok") => arg \in admitted
  /\ (op = "Authenticate" /\ arg \notin admitted) => result = Ret(NoAuth, NotFound)

C19_Witness ==
  /\ op = "Authenticate"
  /\ arg \in issued \ (admitted \cup rejected)
  /\ config.HostedDomains.elems # <<>>
  /\ result = Ret(NoAuth, NotFound)

\* C13: whenever the store executes the query, ForServiceAccountID(sa)
\* returns no error and rows that, as a set, are exactly the created roles a
\* Bind has granted to sa: none when sa has no binding, whatever the order in
\* which roles and bindings were inserted.
C13_ForServiceAccountIDReturnsTheBoundRoles ==
  (call.op = "ForServiceAccountID" /\ call.db = "ok") =>
    /\ call.err = NoErr
    /\ Elems(call.roles) = {r \in created : <<r.id, call.sa>> \in granted}

C13_Witness ==
  /\ call.op = "ForServiceAccountID"
  /\ call.db = "ok"
  /\ call.sa = "sa1"
  /\ Len(call.roles) = 1
  /\ call.roles[1].name = "viewer"
  /\ <<"r1", "sa2">> \in granted

\* C14: every row of role_bindings references a row of roles and an existing
\* service account, and a Bind given a role id that no Create returned (the
\* empty id among them) or an unknown service account returns an error.
C14_NoDanglingBinding ==
  /\ \A i \in 1..Len(roleBindings) :
       /\ \E r \in created : r.id = roleBindings[i].role_id
       /\ \E j \in 1..Len(roles) : roles[j].id = roleBindings[i].role_id
       /\ roleBindings[i].service_account_id \in ServiceAccounts
  /\ (/\ call.op = "Bind"
      /\ \/ call.role.id \notin {r.id : r \in created}
         \/ call.sa \notin ServiceAccounts) => call.err # NoErr

C14_Witness ==
  /\ call.op = "Bind"
  /\ call.role.id = ""
  /\ call.db = "ok"
  /\ call.err # NoErr
  /\ Len(roleBindings) = 1

\* C18: under every interleaving, each stored record pairs its access token
\* with the email of the identity the provider issued that token to, that
\* identity's hosted domain passed the policy, and what an invocation
\* returns, and holds in its local variables, belongs to its own token.
C18_InvocationsUseTheirOwnValues ==
  /\ \A k \in AccessTokens :
       ~tokens[k].isNil =>
         /\ tokens[k].AccessToken = k
         /\ tokens[k].Email = IdentityOf[k].Email
         /\ OnAllowList(IdentityOf[k].HostedDomain)
  /\ \A c \in Callers :
       /\ ~frames[c].userInfo.isNil =>
            frames[c].userInfo = IdentityOf[frames[c].t.AccessToken]
       /\ (frames[c].pc = "Save") =>
            OnAllowList(IdentityOf[frames[c].t.AccessToken].HostedDomain)
       /\ (frames[c].pc = "idle" /\ frames[c].ret.kind = "ok"
             /\ frames[c].op # "none") =>
            /\ frames[c].ret.val.AccessToken \in AccessTokens
            /\ frames[c].ret.val.Email =
                 IdentityOf[frames[c].ret.val.AccessToken].Email

C18_Witness ==
  /\ ~tokens[TokenNames[1]].isNil
  /\ frames["c1"].ret = Ret(AuthResult(TokenNames[1], "a@acme.com"), NoErr)
  /\ frames["c2"].pc = "Save"
  /\ frames["c2"].t.AccessToken = TokenNames[2]

=============================================================================
